---- MODULE Spec2Model ----
(***************************************************************************)
(* A model of the Gerrymander class (src/gerrymander.cpp) and of the       *)
(* VotingMap registry it queries (src/votingmap.cpp).                      *)
(*                                                                         *)
(* A margin (a double in the source) is modelled as an integer percentage: *)
(* 0.2 is 20.  The comparison  pop > mean * (1 + margin)  is modelled as   *)
(* pop * 100 > mean * (100 + pct); for the margins 0.1, 0.2 and 0.5 and    *)
(* every mean below 2000 the double computation and the exact one agree.   *)
(***************************************************************************)
EXTENDS Integers, Sequences, FiniteSets

\* ------------------------------------------------------------------ bounds
MaxIds == 3
MaxPop == 2
MaxVotes == 1
MaxUninit == 1
MaxPlanDistricts == 2
MaxDraws == 2

\* -------------------------------------------------------- program constants
POPULATION_MARGIN == 20
NONE == -1

Ids == 1..MaxIds
Pops == 1..MaxPop
Votes == 0..MaxVotes
\* The values an uninitialised int member may hold when the object is built.
UninitInts == 0..MaxUninit
\* The margins isValidPlan is called with: the default one and the tests' 0.1,
\* and a wide one.
Margins == {10, POPULATION_MARGIN, 50}
\* The thresholds isGerrymandered and naiveGerrymander are called with.
Thresholds == {-2, 0, 7}
\* The district counts the generators are called with.
TotalDistricts == -1..MaxIds + 1

VARIABLES
    graph,            \* VotingMap::graph: id -> Area (dem, rep, pop, adjAreas)
    totalPopulation,  \* VotingMap::totalPopulation
    pc,               \* where the caller is: "idle", inside a call, or its outcome
    op,               \* the public method called last
    argPlan,          \* its districts argument
    argNum,           \* its margin (percent) or threshold argument
    ret,              \* the value it returned
    argTotal,         \* the totalDistricts argument of a generator
    argFavorRep,      \* the favorRep argument of gerrymander
    jerry,            \* naiveGerrymander's districts
    districts,        \* createRandomPlan's / gerrymander's districts
    ids,              \* the ids no district holds yet
    all,              \* the helper's Vector all (its elements are distinct)
    maxPop,           \* the helper's max / maxPop
    district,         \* curDistrict, the district being grown
    demo,             \* its running demographic (districtPop is demo.pop)
    stack,            \* createRandomDistrict: the adj Vector of each live call
    adj,              \* createGerrymanderedDistrict: the frontier adj
    curID             \* createGerrymanderedDistrict: the precinct to add next

callVars == <<op, argPlan, argNum, ret, argTotal, argFavorRep>>

genVars == <<jerry, districts, ids, all, maxPop, district, demo, stack, adj, curID>>

vars == <<graph, totalPopulation, pc, callVars, genVars>>

\* ---------------------------------------------------------------- helpers
Min(S) == CHOOSE x \in S : \A y \in S : x <= y

Abs(x) == IF x < 0 THEN -x ELSE x

\* C++ int division truncates toward zero.
IntDiv(a, b) ==
    IF (a >= 0) = (b > 0) THEN Abs(a) \div Abs(b) ELSE -(Abs(a) \div Abs(b))

\* The elements of a Set<int> in iteration (ascending) order.
RECURSIVE SetToSeq(_)
SetToSeq(S) == IF S = {} THEN <<>> ELSE <<Min(S)>> \o SetToSeq(S \ {Min(S)})

\* Set<Set<int>> orders its elements lexicographically over their ascending
\* element sequences (a proper prefix is smaller).
RECURSIVE SeqLess(_, _)
SeqLess(s, t) ==
    IF t = <<>> THEN FALSE
    ELSE IF s = <<>> THEN TRUE
    ELSE IF Head(s) # Head(t) THEN Head(s) < Head(t)
    ELSE SeqLess(Tail(s), Tail(t))

FirstDistrict(plan) ==
    CHOOSE d \in plan :
        \A e \in plan \ {d} : SeqLess(SetToSeq(d), SetToSeq(e))

\* ------------------------------------------------------------- VotingMap
contains(id) == id \in DOMAIN graph

precinctSet == DOMAIN graph

totalPop == totalPopulation

\* getArea throws for an unregistered id; callers below test contains first.
getDemographic(id) == graph[id]

getAdjacentPrecincts(id) == graph[id].adjAreas

\* VotingMap::addArea: a registered id is left alone.
addArea(id, dem, rep, pop, adjacency) ==
    /\ pc = "idle"
    /\ IF contains(id)
       THEN UNCHANGED <<graph, totalPopulation>>
       ELSE /\ graph' = [i \in DOMAIN graph \cup {id} |->
                            IF i = id
                            THEN [dem |-> dem, rep |-> rep, pop |-> pop,
                                  adjAreas |-> adjacency]
                            ELSE graph[i]]
            /\ totalPopulation' = totalPopulation + pop
    /\ UNCHANGED <<pc, callVars, genVars>>

\* ------------------------------------------------------------ continuity
\* isContinuousHelper removes start and walks its neighbours in ascending
\* order.  The result is the part of the district that is left and whether a lookup of
\* an unregistered id threw.
RECURSIVE isContinuousHelper(_, _)
RECURSIVE WalkNext(_, _)
WalkNext(st, next) ==
    IF next = {} \/ st.threw THEN st
    ELSE WalkNext(isContinuousHelper(st, Min(next)), next \ {Min(next)})

\* A walk that stops at the neighbours of its start.
MutIsContinuousHelperOneStep(st, start) ==
    IF st.threw \/ start \notin st.district THEN st
    ELSE IF ~contains(start)
         THEN [district |-> st.district \ {start}, threw |-> TRUE]
         ELSE [district |-> (st.district \ {start}) \ getAdjacentPrecincts(start),
               threw |-> FALSE]

isContinuousHelper(st, start) ==
    IF st.threw \/ start \notin st.district THEN st
    ELSE IF ~contains(start)
         THEN [district |-> st.district \ {start}, threw |-> TRUE]
         ELSE WalkNext([district |-> st.district \ {start}, threw |-> FALSE],
                       getAdjacentPrecincts(start))

\* "true", "false", or "error" (Set::first of an empty set, or getArea of an
\* unregistered id).
isContinuous(dist) ==
    IF dist = {} THEN "error"
    ELSE LET st == isContinuousHelper([district |-> dist, threw |-> FALSE],
                                      Min(dist))
         IN  IF st.threw THEN "error"
             ELSE IF st.district = {} THEN "true" ELSE "false"

\* ------------------------------------------------------------ isValidPlan
RECURSIVE SumPop(_)
SumPop(dist) ==
    IF dist = {} THEN 0
    ELSE getDemographic(Min(dist)).pop + SumPop(dist \ {Min(dist)})

\* The loop of isValidPlan over the districts that are left, in Set order.
RECURSIVE ValidLoop(_, _, _, _)
ValidLoop(left, allIDs, mean, margin) ==
    IF left = {} THEN (IF allIDs = {} THEN "true" ELSE "false")
    ELSE LET dist == FirstDistrict(left)
             cont == isContinuous(dist)
         IN  IF cont = "error" THEN "error"
             ELSE IF cont = "false" THEN "false"
             ELSE IF \E precinct \in dist : ~contains(precinct)
                  THEN "error"   \* getDemographic: getArea throws
             ELSE LET districtPop == SumPop(dist)
                  IN  IF \/ districtPop * 100 > mean * (100 + margin)
                         \/ districtPop * 100 < mean * (100 - margin)
                      THEN "false"
                      ELSE ValidLoop(left \ {dist}, allIDs \ dist,
                                     mean, margin)

\* The value isValidPlan returns.  With no district the division by
\* districts.size() is undefined, and the callers below let the call trap or
\* go on: the quotient is then never read.
isValidPlan(plan, margin) ==
    IF plan = {}
    THEN (IF precinctSet = {} THEN "true" ELSE "false")
    ELSE ValidLoop(plan, precinctSet,
                   IntDiv(totalPop, Cardinality(plan)), margin)

\* ------------------------------------------------------- Efficiency Gap
repWasted(dem, rep) == IF dem > rep THEN rep ELSE rep - dem - 1

\* A tie counted as a Democratic win.
MutDemWastedTieWins(dem, rep) == IF dem >= rep THEN dem - rep - 1 ELSE dem

demWasted(dem, rep) == IF dem > rep THEN dem - rep - 1 ELSE dem

RECURSIVE SumDem(_)
SumDem(dist) ==
    IF dist = {} THEN 0
    ELSE getDemographic(Min(dist)).dem + SumDem(dist \ {Min(dist)})

RECURSIVE SumRep(_)
SumRep(dist) ==
    IF dist = {} THEN 0
    ELSE getDemographic(Min(dist)).rep + SumRep(dist \ {Min(dist)})

\* The loop of howGerrymandered: acc is <<demWaste, repWaste, totalVotes>>.
RECURSIVE WasteLoop(_, _)
WasteLoop(left, acc) ==
    IF left = {} THEN acc
    ELSE LET dist == FirstDistrict(left)
             dem == SumDem(dist)
             rep == SumRep(dist)
         IN  WasteLoop(left \ {dist},
                       <<acc[1] + demWasted(dem, rep),
                         acc[2] + repWasted(dem, rep),
                         acc[3] + dem + rep>>)

\* howGerrymandered without its validity test.
MutHowGerrymanderedNoValidity(plan) ==
    IF \E d \in plan : \E precinct \in d : ~contains(precinct)
    THEN [kind |-> "error", val |-> 0]
    ELSE
    LET acc == WasteLoop(plan, <<0, 0, 0>>)
    IN  IF acc[3] = 0 THEN [kind |-> "divzero", val |-> 0]
        ELSE [kind |-> "value",
              val |-> IntDiv(100 * Abs(acc[1] - acc[2]), acc[3])]

\* The outcome of howGerrymandered: [kind, val], kind "value", "error" or
\* "divzero" (the division when no vote was cast, or when the plan is empty).
howGerrymandered(plan) ==
    LET valid == isValidPlan(plan, POPULATION_MARGIN)
    IN  IF valid = "error" THEN [kind |-> "error", val |-> 0]
        ELSE IF valid = "false" THEN [kind |-> "value", val |-> NONE]
        ELSE LET acc == WasteLoop(plan, <<0, 0, 0>>)
             IN  IF acc[3] = 0 THEN [kind |-> "divzero", val |-> 0]
                 ELSE [kind |-> "value",
                       val |-> IntDiv(100 * Abs(acc[1] - acc[2]), acc[3])]

isGerrymandered(score, margin) == score > margin

\* ----------------------------------------------------------------- inputs
Districts == SUBSET Ids \ {{}}

Plans == {p \in SUBSET Districts : Cardinality(p) <= MaxPlanDistricts}

\* ----------------------------------------------------------------- Init
Init ==
    /\ graph = <<>>
    /\ totalPopulation \in UninitInts
    /\ pc = "idle"
    /\ op = "none"
    /\ argPlan = {}
    /\ argNum = 0
    /\ ret = 0
    /\ argTotal = 0
    /\ argFavorRep = FALSE
    /\ jerry = {}
    /\ districts = {}
    /\ ids = {}
    /\ all = {}
    /\ maxPop = 0
    /\ district = {}
    /\ demo = [dem |-> 0, rep |-> 0, pop |-> 0]
    /\ stack = <<>>
    /\ adj = {}
    /\ curID = 0

\* ------------------------------------------------------------- the calls
\* The quotient a build that does not trap goes on with after an integer
\* division by zero.
DivByZeroQuotients == {0}

\* A call ends: it returned, threw ("error") or trapped on a division by zero
\* ("trap").
Finish(o, plan, num, outcome, value) ==
    /\ pc' = outcome
    /\ op' = o
    /\ argPlan' = plan
    /\ argNum' = num
    /\ ret' = value
    /\ UNCHANGED <<graph, totalPopulation, argTotal, argFavorRep, genVars>>

IsValidPlanCall ==
    \E plan \in Plans, margin \in Margins :
        /\ pc = "idle"
        /\ LET v == isValidPlan(plan, margin)
           IN  \/ /\ plan = {}
                  /\ Finish("isValidPlan", plan, margin, "trap", FALSE)
               \/ /\ v = "error"
                  /\ Finish("isValidPlan", plan, margin, "error", FALSE)
               \/ /\ v # "error"
                  /\ Finish("isValidPlan", plan, margin, "returned", v = "true")

HowGerrymanderedCall ==
    \E plan \in Plans :
        /\ pc = "idle"
        /\ LET h == howGerrymandered(plan)
           IN  \/ /\ plan = {} \/ h.kind = "divzero"
                  /\ Finish("howGerrymandered", plan, 0, "trap", 0)
               \/ /\ h.kind = "divzero"
                  /\ \E q \in DivByZeroQuotients :
                        Finish("howGerrymandered", plan, 0, "returned", q)
               \/ /\ h.kind = "error"
                  /\ Finish("howGerrymandered", plan, 0, "error", 0)
               \/ /\ h.kind = "value"
                  /\ Finish("howGerrymandered", plan, 0, "returned", h.val)

IsGerrymanderedCall ==
    \E plan \in Plans, margin \in Thresholds :
        /\ pc = "idle"
        /\ LET h == howGerrymandered(plan)
           IN  \/ /\ plan = {} \/ h.kind = "divzero"
                  /\ Finish("isGerrymandered", plan, margin, "trap", FALSE)
               \/ /\ h.kind = "divzero"
                  /\ \E q \in DivByZeroQuotients :
                        Finish("isGerrymandered", plan, margin, "returned",
                               isGerrymandered(q, margin))
               \/ /\ h.kind = "error"
                  /\ Finish("isGerrymandered", plan, margin, "error", FALSE)
               \/ /\ h.kind = "value"
                  /\ Finish("isGerrymandered", plan, margin, "returned",
                            isGerrymandered(h.val, margin))

\* ----------------------------------------------------------- generation
NoDemo == [dem |-> 0, rep |-> 0, pop |-> 0]

\* A generator is called: createRandomPlan and gerrymander start at their
\* while test, naiveGerrymander at its own.
StartGen(o, total, favorRep, margin) ==
    /\ pc = "idle"
    /\ pc' = IF o = "naiveGerrymander" THEN "naiveTest" ELSE "planTest"
    /\ op' = o
    /\ argTotal' = total
    /\ argFavorRep' = favorRep
    /\ argNum' = margin
    /\ argPlan' = {}
    /\ ret' = {}
    /\ jerry' = {}
    /\ districts' = {}
    /\ UNCHANGED <<graph, totalPopulation, ids, all, maxPop, district, demo,
                   stack, adj, curID>>

CreateRandomPlanCall ==
    \E total \in TotalDistricts : StartGen("createRandomPlan", total, FALSE, 0)

GerrymanderCall ==
    \E total \in TotalDistricts, favorRep \in BOOLEAN :
        StartGen("gerrymander", total, favorRep, 0)

NaiveGerrymanderCall ==
    \E total \in TotalDistricts, margin \in Thresholds :
        StartGen("naiveGerrymander", total, FALSE, margin)

\* A generator ends: its locals die.
GenEnd(outcome, value) ==
    /\ pc' = outcome
    /\ ret' = value
    /\ jerry' = {}
    /\ districts' = {}
    /\ ids' = {}
    /\ all' = {}
    /\ maxPop' = 0
    /\ district' = {}
    /\ demo' = NoDemo
    /\ stack' = <<>>
    /\ adj' = {}
    /\ curID' = 0
    /\ UNCHANGED <<graph, totalPopulation, op, argPlan, argNum, argTotal,
                   argFavorRep>>

\* naiveGerrymander's while test: return jerry, or call createRandomPlan.
NaiveTest ==
    /\ pc = "naiveTest"
    /\ LET h == howGerrymandered(jerry)
           scores == IF h.kind = "divzero" THEN DivByZeroQuotients
                     ELSE IF h.kind = "value" THEN {h.val} ELSE {}
       IN  \/ /\ jerry = {} \/ h.kind = "divzero"
              /\ GenEnd("trap", {})
           \/ /\ h.kind = "error"
              /\ GenEnd("error", {})
           \/ \E score \in scores :
                  IF isGerrymandered(score, argNum)
                  THEN GenEnd("returned", jerry)
                  ELSE /\ pc' = "planTest"
                       /\ districts' = {}
                       /\ UNCHANGED <<graph, totalPopulation, callVars, jerry,
                                      ids, all, maxPop, district, demo, stack,
                                      adj, curID>>

\* The helper is entered with the full id set and max = totalPop / totalDistricts.
EnterHelper(max) ==
    /\ pc' = "helper"
    /\ ids' = precinctSet
    /\ districts' = {}
    /\ maxPop' = max
    /\ all' = precinctSet
    /\ UNCHANGED <<graph, totalPopulation, callVars, jerry, district, demo,
                   stack, adj, curID>>

\* A loop that builds one candidate and returns it untested.
MutPlanTestAcceptsAny ==
    /\ pc = "planTest"
    /\ \/ /\ districts # {}
          /\ GenEnd("returned", districts)
       \/ /\ districts = {}
          /\ argTotal # 0
          /\ EnterHelper(IntDiv(totalPop, argTotal))

\* The while test of createRandomPlan and of gerrymander: return districts
\* (to naiveGerrymander when it is the caller), or build another candidate.
PlanTest ==
    /\ pc = "planTest"
    /\ LET v == isValidPlan(districts, POPULATION_MARGIN)
       IN  \/ /\ districts = {}
              /\ GenEnd("trap", {})
           \/ /\ v = "error"
              /\ GenEnd("error", {})
           \/ /\ v = "true"
              /\ IF op = "naiveGerrymander"
                 THEN /\ pc' = "naiveTest"
                      /\ jerry' = districts
                      /\ districts' = {}
                      /\ UNCHANGED <<graph, totalPopulation, callVars, ids, all,
                                     maxPop, district, demo, stack, adj, curID>>
                 ELSE GenEnd("returned", districts)
           \/ /\ v = "false"
              /\ argTotal # 0
              /\ EnterHelper(IntDiv(totalPop, argTotal))
           \/ /\ v = "false"
              /\ argTotal = 0
              /\ \/ GenEnd("trap", {})
                 \/ \E q \in DivByZeroQuotients : EnterHelper(q)

\* The while loop of createRandomPlanHelper and of gerrymanderHelper: a random
\* index into all, whose element is one of draws; a district is started when
\* that element is still free.
HelperStepOf(draws) ==
    /\ pc = "helper"
    /\ \/ /\ ids = {}
          /\ pc' = "planTest"
          /\ UNCHANGED <<graph, totalPopulation, callVars, genVars>>
       \/ /\ ids # {}
          /\ all = {}   \* all.get(index) of an empty Vector throws
          /\ GenEnd("error", {})
       \/ /\ ids # {}
          /\ \E x \in draws :
                /\ all' = all \ {x}
                /\ IF x \notin ids
                   THEN UNCHANGED <<pc, districts, ids, district, demo, stack,
                                   adj, curID>>
                   ELSE IF op = "gerrymander"
                   THEN /\ pc' = "biasGrow"
                        /\ district' = {}
                        /\ demo' = NoDemo
                        /\ adj' = {}
                        /\ curID' = x
                        /\ UNCHANGED <<districts, ids, stack>>
                   ELSE /\ pc' = "randGrow"
                        /\ IF 0 >= maxPop
                           THEN /\ district' = {}
                                /\ demo' = NoDemo
                                /\ stack' = <<>>
                                /\ UNCHANGED ids
                           ELSE /\ district' = {x}
                                /\ demo' = [NoDemo EXCEPT
                                              !.pop = getDemographic(x).pop]
                                /\ ids' = ids \ {x}
                                /\ stack' = <<getAdjacentPrecincts(x)>>
                        /\ UNCHANGED <<districts, adj, curID>>
                /\ UNCHANGED <<graph, totalPopulation, callVars, jerry, maxPop>>

\* randomInteger(0, all.size() - 1) can return every index of all.
HelperStep == HelperStepOf(all)

\* A walk that asks whether a neighbour is registered, not whether it is free.
MutRandStepTakesRegistered ==
    /\ pc = "randGrow"
    /\ \/ /\ stack = <<>>
          /\ pc' = "helper"
          /\ districts' = districts \cup {district}
          /\ district' = {}
          /\ demo' = NoDemo
          /\ UNCHANGED <<ids, stack>>
       \/ /\ stack # <<>>
          /\ stack[Len(stack)] = {}
          /\ stack' = SubSeq(stack, 1, Len(stack) - 1)
          /\ UNCHANGED <<pc, districts, district, demo, ids>>
       \/ /\ stack # <<>>
          /\ \E y \in stack[Len(stack)] :
                LET rest == [stack EXCEPT ![Len(stack)] = @ \ {y}]
                IN  IF contains(y) /\ ~(demo.pop >= maxPop)
                    THEN /\ district' = district \cup {y}
                         /\ demo' = [demo EXCEPT
                                       !.pop = @ + getDemographic(y).pop]
                         /\ ids' = ids \ {y}
                         /\ stack' = Append(rest, getAdjacentPrecincts(y))
                         /\ UNCHANGED <<pc, districts>>
                    ELSE /\ stack' = rest
                         /\ UNCHANGED <<pc, districts, district, demo, ids>>
    /\ UNCHANGED <<graph, totalPopulation, callVars, jerry, all, maxPop, adj,
                   curID>>

\* createRandomDistrict: the live calls' adj Vectors are the stack.  A random
\* index picks a neighbour; a free one is recursed into, and the call made
\* returns at once when the population has reached maxPop.
RandStep ==
    /\ pc = "randGrow"
    /\ \/ /\ stack = <<>>
          /\ pc' = "helper"
          /\ districts' = districts \cup {district}
          /\ district' = {}
          /\ demo' = NoDemo
          /\ UNCHANGED <<ids, stack>>
       \/ /\ stack # <<>>
          /\ stack[Len(stack)] = {}
          /\ stack' = SubSeq(stack, 1, Len(stack) - 1)
          /\ UNCHANGED <<pc, districts, district, demo, ids>>
       \/ /\ stack # <<>>
          /\ \E y \in stack[Len(stack)] :
                LET rest == [stack EXCEPT ![Len(stack)] = @ \ {y}]
                IN  IF y \in ids /\ ~(demo.pop >= maxPop)
                    THEN /\ district' = district \cup {y}
                         /\ demo' = [demo EXCEPT
                                       !.pop = @ + getDemographic(y).pop]
                         /\ ids' = ids \ {y}
                         /\ stack' = Append(rest, getAdjacentPrecincts(y))
                         /\ UNCHANGED <<pc, districts>>
                    ELSE /\ stack' = rest
                         /\ UNCHANGED <<pc, districts, district, demo, ids>>
    /\ UNCHANGED <<graph, totalPopulation, callVars, jerry, all, maxPop, adj,
                   curID>>

\* The wasted-vote differential the favoured party gains from.
Differential(dem, rep, favorRep) ==
    IF favorRep THEN demWasted(dem, rep) - repWasted(dem, rep)
    ELSE repWasted(dem, rep) - demWasted(dem, rep)

\* The loop that finds maxID: every id it can end at when each call of
\* randomBool returns a value of bools.
RECURSIVE PickMaxOf(_, _, _, _, _, _)
PickMaxOf(cands, maxWaste, maxID, d, favorRep, bools) ==
    IF cands = <<>> THEN {maxID}
    ELSE LET id == Head(cands)
             tempDemo == getDemographic(id)
             candidateWaste == Differential(d.dem + tempDemo.dem,
                                            d.rep + tempDemo.rep, favorRep)
         IN  IF candidateWaste > maxWaste
             THEN PickMaxOf(Tail(cands), candidateWaste, id, d, favorRep, bools)
             ELSE IF candidateWaste = maxWaste
             THEN UNION {PickMaxOf(Tail(cands), maxWaste,
                                   IF b THEN id ELSE maxID, d, favorRep, bools) :
                         b \in bools}
             ELSE PickMaxOf(Tail(cands), maxWaste, maxID, d, favorRep, bools)

\* randomBool can return either value.
PickMax(cands, maxWaste, maxID, d, favorRep) ==
    PickMaxOf(cands, maxWaste, maxID, d, favorRep, BOOLEAN)

\* createGerrymanderedDistrict, one call: return when the population exceeds
\* maxPop; else add curID, widen the frontier, and recurse into maxID.
BiasStepOf(bools) ==
    /\ pc = "biasGrow"
    /\ IF demo.pop > maxPop
       THEN /\ pc' = "helper"
            /\ districts' = districts \cup {district}
            /\ district' = {}
            /\ demo' = NoDemo
            /\ adj' = {}
            /\ curID' = 0
            /\ UNCHANGED ids
       ELSE LET curDemo == getDemographic(curID)
                demo1 == [dem |-> demo.dem + curDemo.dem,
                          rep |-> demo.rep + curDemo.rep,
                          pop |-> demo.pop + curDemo.pop]
                ids1 == ids \ {curID}
                adj1 == (adj \cup getAdjacentPrecincts(curID)) \cap ids1
            IN  IF adj1 = {}
                THEN /\ pc' = "helper"
                     /\ districts' = districts \cup {district \cup {curID}}
                     /\ ids' = ids1
                     /\ district' = {}
                     /\ demo' = NoDemo
                     /\ adj' = {}
                     /\ curID' = 0
                ELSE /\ \E maxID \in PickMaxOf(SetToSeq(adj1),
                                               Differential(demo1.dem, demo1.rep,
                                                            argFavorRep),
                                               Min(adj1), demo1, argFavorRep,
                                               bools) :
                            curID' = maxID
                     /\ district' = district \cup {curID}
                     /\ demo' = demo1
                     /\ ids' = ids1
                     /\ adj' = adj1
                     /\ UNCHANGED <<pc, districts>>
    /\ UNCHANGED <<graph, totalPopulation, callVars, jerry, all, maxPop, stack>>

BiasStep == BiasStepOf(BOOLEAN)

\* The registry of a generation: any populations, every vote cast for one of
\* the two parties, and each precinct bordering every other one or none.
AddAreaGen ==
    \E id \in Ids, dem \in Votes, pop \in Pops, none \in BOOLEAN :
        addArea(id, dem, MaxVotes - dem, pop, IF none THEN {} ELSE Ids \ {id})

\* createRandomPlan and gerrymander.
NextGen ==
    \/ AddAreaGen
    \/ CreateRandomPlanCall
    \/ GerrymanderCall
    \/ PlanTest
    \/ HelperStep
    \/ RandStep
    \/ BiasStep

SpecGen == Init /\ [][NextGen]_vars

\* A call that has started keeps running: the one thread executes its next
\* step.
GenStep == PlanTest \/ HelperStep \/ RandStep \/ BiasStep

\* The registry of a termination check: any populations, each precinct
\* bordering every other one or none, the votes (which decide no loop test of
\* createRandomPlan or gerrymander) fixed.
AddAreaLoop ==
    \E id \in Ids, pop \in Pops, none \in BOOLEAN :
        addArea(id, 1, 0, pop, IF none THEN {} ELSE Ids \ {id})

NextLoop ==
    \/ AddAreaLoop
    \/ CreateRandomPlanCall
    \/ GerrymanderCall
    \/ PlanTest
    \/ HelperStep
    \/ RandStep
    \/ BiasStep

SpecLoop == Init /\ [][NextLoop]_vars /\ WF_vars(GenStep)

\* naiveGerrymander, and the createRandomPlan it calls.
NextNaive ==
    \/ AddAreaGen
    \/ NaiveGerrymanderCall
    \/ NaiveTest
    \/ PlanTest
    \/ HelperStep
    \/ RandStep

SpecNaive == Init /\ [][NextNaive]_vars

\* The registry of a validity check: any populations and adjacency sets, the
\* votes (which isValidPlan never reads) fixed.
AddAreaPop ==
    \E id \in Ids, pop \in Pops, adjacency \in SUBSET Ids :
        addArea(id, 1, 0, pop, adjacency \ {id})

NextValid == AddAreaPop \/ IsValidPlanCall \/ HowGerrymanderedCall

SpecValid == Init /\ [][NextValid]_vars

\* The registry of a scoring check: any votes and populations, every precinct
\* bordering every other one.
AddAreaVotes ==
    \E id \in Ids, dem \in Votes, rep \in Votes, pop \in Pops :
        addArea(id, dem, rep, pop, Ids \ {id})

NextScore == AddAreaVotes \/ HowGerrymanderedCall \/ IsGerrymanderedCall

SpecScore == Init /\ [][NextScore]_vars

\* ------------------------------------------------------ the test fixtures
adjacentWithinDefaultJerry(id) ==
    (IF id > 4 THEN {id - 5} ELSE {})
    \cup (IF id % 5 > 0 THEN {id - 1} ELSE {})
    \cup (IF id % 5 < 4 THEN {id + 1} ELSE {})
    \cup (IF id < 45 THEN {id + 5} ELSE {})

\* The registry after the tests register defaultMapJerry(): the 10x5 grid.
defaultMapJerry ==
    [id \in 0..49 |->
        [dem |-> IF id % 5 < 2 THEN 1 ELSE 0,
         rep |-> IF id % 5 < 2 THEN 0 ELSE 1,
         pop |-> 1,
         adjAreas |-> adjacentWithinDefaultJerry(id)]]

Area(dem, rep, pop, adjacency) ==
    [dem |-> dem, rep |-> rep, pop |-> pop, adjAreas |-> adjacency]

\* The registry of the test "Custom Precincts for plan generation".
customPrecincts ==
    [id \in 50001..50007 |->
        CASE id = 50001 -> Area(121, 162, 636, {50002, 50007})
          [] id = 50002 -> Area(1011, 351, 2837, {50001, 50003, 50004})
          [] id = 50003 -> Area(234, 1141, 2527, {50002, 50005})
          [] id = 50004 -> Area(366, 452, 1223, {50002, 50005})
          [] id = 50005 -> Area(468, 611, 2168, {50002, 50004, 50003, 50006})
          [] id = 50006 -> Area(51, 275, 619, {50002, 50005, 50007})
          [] id = 50007 -> Area(121, 909, 2918, {50001, 50006})]

\* A test has registered its fixture in a fresh Gerrymander.
InitFixture ==
    /\ graph \in {defaultMapJerry, customPrecincts}
    /\ totalPopulation \in {u + SumPop(DOMAIN graph) : u \in UninitInts}
    /\ pc = "idle"
    /\ op = "none"
    /\ argPlan = {}
    /\ argNum = 0
    /\ ret = 0
    /\ argTotal = 0
    /\ argFavorRep = FALSE
    /\ jerry = {}
    /\ districts = {}
    /\ ids = {}
    /\ all = {}
    /\ maxPop = 0
    /\ district = {}
    /\ demo = NoDemo
    /\ stack = <<>>
    /\ adj = {}
    /\ curID = 0

\* The calls of gerrymander followed on each fixture: the tests' first call on
\* the grid, and their call on the custom precincts, whose gerrymander(2, 7)
\* converts its 7 to favorRep = true.  (The tests' second call on the grid,
\* gerrymander(2, false), is not followed: its districts of 26 precincts make
\* the walk of isContinuous too deep to evaluate.)
FixtureCalls ==
    IF graph = defaultMapJerry THEN {<<5, TRUE>>} ELSE {<<2, TRUE>>}

GerrymanderFixtureCall ==
    \E c \in FixtureCalls : StartGen("gerrymander", c[1], c[2], 0)

\* The draws of randomInteger followed on a fixture: those that hit one of the
\* MaxDraws smallest or MaxDraws largest precincts that are still free.
FixtureDraws ==
    LET free == all \cap ids
    IN  {x \in free : \/ Cardinality({y \in free : y < x}) < MaxDraws
                      \/ Cardinality({y \in free : y > x}) < MaxDraws}

\* The values of randomBool followed on a fixture.
FixtureBools == {FALSE}

FixtureHelperStep == HelperStepOf(FixtureDraws)

FixtureBiasStep == BiasStepOf(FixtureBools)

NextFixture ==
    \/ GerrymanderFixtureCall
    \/ PlanTest
    \/ FixtureHelperStep
    \/ FixtureBiasStep

SpecFixture == InitFixture /\ [][NextFixture]_vars

\* ------------------------------------------------------------- the claims
Returned(o) == pc = "returned" /\ op = o

Registered(plan) == \A d \in plan : d \subseteq precinctSet

\* The members of a district that adjacency edges reach from its first
\* member without leaving the district.
RECURSIVE Grow(_, _)
Grow(R, dist) ==
    LET R2 == R \cup {j \in dist : \E i \in R : j \in graph[i].adjAreas}
    IN  IF R2 = R THEN R ELSE Grow(R2, dist)

Reachable(dist) == Grow({Min(dist)}, dist)

Continuous(dist) == Reachable(dist) = dist

\* The total population field holds the sum of the registered populations
\* (its uninitialised start was 0).
TotalIsSum == totalPop = SumPop(precinctSet)

\* C1: whenever isValidPlan returns true, the districts' union is the set of
\* registered precinct ids and no id is in two districts.  (Stated for the
\* registries whose total population field is right, where it already fails.)
C1_ValidPlanIsPartition ==
    (Returned("isValidPlan") /\ ret = TRUE /\ TotalIsSum) =>
        /\ UNION argPlan = precinctSet
        /\ \A d \in argPlan : \A e \in argPlan \ {d} : d \cap e = {}

\* C2: for districts of registered precincts, isContinuous is true exactly
\* when every member is reachable from the first one through members of the
\* district (so a singleton is continuous), and isValidPlan returns false for a
\* plan with a district that is not continuous, whatever the populations and
\* the margin.
C2_ContinuityDecides ==
    (op = "isValidPlan" /\ pc # "idle" /\ Registered(argPlan)) =>
        /\ \A d \in argPlan :
              /\ (isContinuous(d) = "true") <=> Continuous(d)
              /\ Cardinality(d) = 1 => isContinuous(d) = "true"
        /\ (\E d \in argPlan : ~Continuous(d)) =>
              (pc = "returned" /\ ret = FALSE)

\* C2's case: one district holding every registered precinct, three of them,
\* all reached only through the second, or not at all.
C2_Witness ==
    /\ Returned("isValidPlan")
    /\ precinctSet = Ids
    /\ argPlan = {precinctSet}
    /\ graph[1].adjAreas = {2}
    /\ ~Continuous(precinctSet)
    /\ ret = FALSE

\* C3: for a plan of continuous districts that cover every precinct,
\* isValidPlan is true exactly when every district's population lies within
\* the margin of the mean totalPopulation / number of districts, bounds
\* included.  (Stated for the registries whose total population field is
\* right, where it already fails.)
WithinMargin(dist, n, margin) ==
    /\ SumPop(dist) * n * 100 >= totalPop * (100 - margin)
    /\ SumPop(dist) * n * 100 <= totalPop * (100 + margin)

C3_MarginOfMean ==
    (/\ Returned("isValidPlan")
     /\ TotalIsSum
     /\ argPlan # {}
     /\ Registered(argPlan)
     /\ UNION argPlan = precinctSet
     /\ \A d \in argPlan : Continuous(d)) =>
        (ret = TRUE <=>
            \A d \in argPlan : WithinMargin(d, Cardinality(argPlan), argNum))

\* C4: howGerrymandered returns NONE for every plan isValidPlan rejects at
\* the default margin.
C4_InvalidScoresNone ==
    (Returned("howGerrymandered")
     /\ isValidPlan(argPlan, POPULATION_MARGIN) = "false") => ret = NONE

\* C4's case: a plan of continuous districts that leaves a precinct out.
C4_Witness ==
    /\ Returned("howGerrymandered")
    /\ argPlan # {}
    /\ Registered(argPlan)
    /\ \A d \in argPlan : Continuous(d)
    /\ UNION argPlan # precinctSet
    /\ ret = NONE

\* The wasted votes as the Efficiency Gap defines them, and their sums over a
\* plan's districts taken in any order.
GapDemWasted(d, r) == IF d > r THEN d - r - 1 ELSE d

GapRepWasted(d, r) == IF d > r THEN r ELSE r - d - 1

RECURSIVE PlanDemWasted(_)
PlanDemWasted(plan) ==
    IF plan = {} THEN 0
    ELSE LET d == CHOOSE x \in plan : TRUE
         IN  GapDemWasted(SumDem(d), SumRep(d)) + PlanDemWasted(plan \ {d})

RECURSIVE PlanRepWasted(_)
PlanRepWasted(plan) ==
    IF plan = {} THEN 0
    ELSE LET d == CHOOSE x \in plan : TRUE
         IN  GapRepWasted(SumDem(d), SumRep(d)) + PlanRepWasted(plan \ {d})

RECURSIVE PlanVotes(_)
PlanVotes(plan) ==
    IF plan = {} THEN 0
    ELSE LET d == CHOOSE x \in plan : TRUE
         IN  SumDem(d) + SumRep(d) + PlanVotes(plan \ {d})

\* A plan howGerrymandered returned a score for: valid at the default margin,
\* with a vote cast.
Scored ==
    /\ Returned("howGerrymandered")
    /\ isValidPlan(argPlan, POPULATION_MARGIN) = "true"
    /\ PlanVotes(argPlan) > 0

\* C5: the score of a valid plan with at least one vote is in 0..100.  (Stated
\* for the registries whose total population field is right, where it already
\* fails.)
C5_ScoreIsPercentage == (Scored /\ TotalIsSum) => ret \in 0..100

\* The 10x5 grid of the tests: the first two of every five ids vote Democratic,
\* the others Republican, and block i of the cracking plan is the ten ids from
\* 10 * i on.
RECURSIVE JerryDem(_, _)
JerryDem(from, n) ==
    IF n = 0 THEN 0
    ELSE (IF from % 5 < 2 THEN 1 ELSE 0) + JerryDem(from + 1, n - 1)

RECURSIVE CrackedWaste(_)
CrackedWaste(i) ==
    IF i = 5 THEN <<0, 0, 0>>
    ELSE LET dem == JerryDem(10 * i, 10)
             rep == 10 - dem
             rest == CrackedWaste(i + 1)
         IN  <<rest[1] + demWasted(dem, rep), rest[2] + repWasted(dem, rep),
               rest[3] + dem + rep>>

CrackedScore ==
    IntDiv(100 * Abs(CrackedWaste(0)[1] - CrackedWaste(0)[2]), CrackedWaste(0)[3])

\* C6: the score of a valid plan with at least one vote is
\* floor(100 * |sum of demWasted - sum of repWasted| / totalVotes), and the
\* cracking plan of the 10x5 grid scores above 7.
C6_EfficiencyGapFormula ==
    /\ Scored =>
          LET gap == Abs(PlanDemWasted(argPlan) - PlanRepWasted(argPlan))
              votes == PlanVotes(argPlan)
          IN  /\ ret * votes <= 100 * gap
              /\ 100 * gap < (ret + 1) * votes
    /\ CrackedScore > 7

\* C6's case: a scored plan of two districts, one won by the Democrats and one
\* tied.
C6_Witness ==
    /\ Scored
    /\ \E d \in argPlan : \E e \in argPlan :
          /\ SumDem(d) > SumRep(d)
          /\ SumDem(e) = SumRep(e)
          /\ SumDem(e) > 0

\* C7: isGerrymandered returns false for every plan that is invalid at the
\* default margin, whatever the threshold.  (Stated for the plans of at least
\* one district and the registries whose total population field is right,
\* where it already fails.)
C7_InvalidNeverGerrymandered ==
    (Returned("isGerrymandered")
     /\ argPlan # {}
     /\ TotalIsSum
     /\ isValidPlan(argPlan, POPULATION_MARGIN) = "false") => ret = FALSE

\* C8: a plan createRandomPlan or gerrymander returns is valid at the default
\* margin.
C8_ReturnedPlanIsValid ==
    (pc = "returned" /\ op \in {"createRandomPlan", "gerrymander"}) =>
        isValidPlan(ret, POPULATION_MARGIN) = "true"

\* C8's case: gerrymander returned a plan of two districts for a registry of
\* MaxIds precincts.
C8_Witness ==
    /\ Returned("gerrymander")
    /\ precinctSet = Ids
    /\ Cardinality(ret) = 2

\* C9: a plan naiveGerrymander returns is valid at the default margin and
\* scores above the threshold.  (Stated for the registries whose total
\* population field is right and the district counts from 1 to the number of
\* precincts, where it already fails.)
C9_NaiveReturnsGerrymandered ==
    (/\ Returned("naiveGerrymander")
     /\ TotalIsSum
     /\ argTotal \in 1..Cardinality(precinctSet)) =>
        /\ isValidPlan(ret, POPULATION_MARGIN) = "true"
        /\ howGerrymandered(ret).kind = "value"
        /\ howGerrymandered(ret).val > argNum

\* C10: a plan createRandomPlan or gerrymander returns has totalDistricts
\* districts.  (Stated for the registries whose total population field is
\* right and the district counts from 1 to the number of precincts, where it
\* already fails.)
C10_ReturnedPlanHasTotalDistricts ==
    (/\ pc = "returned"
     /\ op \in {"createRandomPlan", "gerrymander"}
     /\ TotalIsSum
     /\ argTotal \in 1..Cardinality(precinctSet)) =>
        Cardinality(ret) = argTotal

Generators == {"createRandomPlan", "gerrymander", "naiveGerrymander"}

\* C11: a generator called with a district count that is <= 0 or above the
\* number of registered precincts fails with an error: it returns no plan.
\* (Stated for the counts above the number of precincts and the non-empty
\* registries whose total population field is right, where it already fails.)
C11_InvalidCountFails ==
    (/\ op \in Generators
     /\ TotalIsSum
     /\ precinctSet # {}
     /\ argTotal > Cardinality(precinctSet)) =>
        pc # "returned"

Running == pc \in {"planTest", "helper", "randGrow", "biasGrow", "naiveTest"}

Ended == pc \in {"returned", "error", "trap"}

\* The ways to cut the registered precincts into non-empty disjoint districts.
Partitions ==
    {P \in SUBSET (SUBSET precinctSet \ {{}}) :
        /\ UNION P = precinctSet
        /\ \A a \in P, b \in P : a # b => a \cap b = {}}

NoValidPartition ==
    \A P \in Partitions : isValidPlan(P, POPULATION_MARGIN) # "true"

\* C12: a call of a generator ends, also when the registry has no valid
\* partition.  (Stated for the registries that have none and whose total
\* population field is right, and the district counts from 1 to the number of
\* precincts, where it already fails.)
C12_GeneratorTerminates ==
    (/\ Running
     /\ TotalIsSum
     /\ argTotal \in 1..Cardinality(precinctSet)
     /\ NoValidPartition) ~> Ended

\* C13: a plan gerrymander returns on a test fixture scores above 7.  (Stated
\* for a total population field that is right, where it already fails.)
C13_FixturePlansGerrymandered ==
    (Returned("gerrymander") /\ TotalIsSum) =>
        /\ howGerrymandered(ret).kind = "value"
        /\ isGerrymandered(howGerrymandered(ret).val, 7)

\* C14: neither builder takes another precinct once the population of the
\* district it grows has reached maxPop.  (Stated for a district that holds a
\* precinct, the registries whose total population field is right and the
\* district counts from 1 to the number of precincts, where it already fails.)
C14_BuildersStopAtTarget ==
    [][(/\ pc \in {"randGrow", "biasGrow"}
        /\ district # {}
        /\ TotalIsSum
        /\ argTotal \in 1..Cardinality(precinctSet)
        /\ demo.pop >= maxPop) => ids' = ids]_vars

\* The differential of the district being grown with precinct id added.
CandidateDifferential(id) ==
    Differential(demo.dem + getDemographic(id).dem,
                 demo.rep + getDemographic(id).rep, argFavorRep)

\* C15: the precinct the biased builder has chosen to add next is a free
\* frontier precinct whose differential no other free frontier precinct
\* exceeds.  (Stated for the registries whose total population field is right
\* and the district counts from 1 to the number of precincts, where it
\* already fails.)
C15_ChosenPrecinctIsBest ==
    (/\ pc = "biasGrow"
     /\ district # {}
     /\ TotalIsSum
     /\ argTotal \in 1..Cardinality(precinctSet)) =>
        /\ curID \in adj \cap ids
        /\ \A other \in adj \cap ids :
              CandidateDifferential(curID) >= CandidateDifferential(other)

\* C16: an attempt entered with a target population of at least 1 does not
\* run out of seeds, and when it ends no id is free and the districts built are
\* non-empty, pairwise disjoint and cover the registered precincts.
C16_AttemptPartitions ==
    [][(pc = "helper" /\ maxPop >= 1) =>
          /\ pc' # "error"
          /\ pc' = "planTest" =>
                /\ ids' = {}
                /\ {} \notin districts'
                /\ \A a \in districts', b \in districts' :
                      a # b => a \cap b = {}
                /\ UNION districts' = precinctSet
                /\ Cardinality(districts') <= Cardinality(precinctSet)]_vars

\* C16's case: an attempt on MaxIds precincts has ended with two districts.
C16_Witness ==
    /\ pc = "planTest"
    /\ maxPop >= 1
    /\ precinctSet = Ids
    /\ ids = {}
    /\ Cardinality(districts) = 2

====
